---- MODULE Spec2Model ----
(***************************************************************************)
(* Model of scripts/extract_arxiv.py: extract_first_n_objects reads a     *)
(* newline-delimited JSON file line by line, keeps the records of the     *)
(* first n lines that parse, and writes them as one JSON array.           *)
(***************************************************************************)
EXTENDS Integers, Sequences, FiniteSets, TLC

\* ---------------------------------------------------------------- bounds
MaxShort == 3
MaxTail == 2

\* The modulus of the progress indicator.
ProgressEvery == 100

\* ---------------------------------------------------------------- lines
LineA == "{\"id\": 1}\n"
LineB == "  {\"id\": 2}  \n"
LineBad == "{bad json\n"
\* 1100 opening brackets: json.loads gives up with RecursionError.
DeepText == "[[[[[[[[[[[[[[[[[[[[[[[[[[[[[[[[[[[[[[[[[[[[[[[[[[[[[[[[[[[[[[[[[[[[[[[[[[[[[[[[[[[[[[[[[[[[[[[[[[[[[[[[[[[[[[[[[[[[[[[[[[[[[[[[[[[[[[[[[[[[[[[[[[[[[[[[[[[[[[[[[[[[[[[[[[[[[[[[[[[[[[[[[[[[[[[[[[[[[[[[[[[[[[[[[[[[[[[[[[[[[[[[[[[[[[[[[[[[[[[[[[[[[[[[[[[[[[[[[[[[[[[[[[[[[[[[[[[[[[[[[[[[[[[[[[[[[[[[[[[[[[[[[[[[[[[[[[[[[[[[[[[[[[[[[[[[[[[[[[[[[[[[[[[[[[[[[[[[[[[[[[[[[[[[[[[[[[[[[[[[[[[[[[[[[[[[[[[[[[[[[[[[[[[[[[[[[[[[[[[[[[[[[[[[[[[[[[[[[[[[[[[[[[[[[[[[[[[[[[[[[[[[[[[[[[[[[[[[[[[[[[[[[[[[[[[[[[[[[[[[[[[[[[[[[[[[[[[[[[[[[[[[[[[[[[[[[[[[[[[[[[[[[[[[[[[[[[[[[[[[[[[[[[[[[[[[[[[[[[[[[[[[[[[[[[[[[[[[[[[[[[[[[[[[[[[[[[[[[[[[[[[[[[[[[[[[[[[[[[[[[[[[[[[[[[[[[[[[[[[[[[[[[[[[[[[[[[[[[[[[[[[[[[[[[[[[[[[[[[[[[[[[[[[[[[[[[[[[[[[[[[[[[[[[[[[[[[[[[[[[[[[[[[[[[[[[[[[[[[[[[[[[[[[[[[[[[[[[[[[[[[[[[[[[[[[[[[[[[[[[[[[[[[[[[[[[[[[[[[[[[[[[[[[[[[[[[[[[[[[[[[[[[[[[[[[[[[[[[[[[[[[[[[[[[[[[[[[[[[[[[[[[[[[[[[[[[[[[[[[[[[[[[[[[[[[[[[[[[[[[[[[[[[[[[[[[[[[[[[[[[[[[[[[[[[[[[[[[[[[[[[[[[[[[[[[[[[[[[[[[[[[[[[[[[[[[[[[[[[[[[[[[[[[[[[[[[[[[[[[[[[[[[[[[[[[[[[[[[[[[[[[[[[[[[[[[[[[[[[[[[[[[[[[[[[[[[[[[[[[[[[[[[[[[[[[[[[[[[[[["
LineDeep == "[[[[[[[[[[[[[[[[[[[[[[[[[[[[[[[[[[[[[[[[[[[[[[[[[[[[[[[[[[[[[[[[[[[[[[[[[[[[[[[[[[[[[[[[[[[[[[[[[[[[[[[[[[[[[[[[[[[[[[[[[[[[[[[[[[[[[[[[[[[[[[[[[[[[[[[[[[[[[[[[[[[[[[[[[[[[[[[[[[[[[[[[[[[[[[[[[[[[[[[[[[[[[[[[[[[[[[[[[[[[[[[[[[[[[[[[[[[[[[[[[[[[[[[[[[[[[[[[[[[[[[[[[[[[[[[[[[[[[[[[[[[[[[[[[[[[[[[[[[[[[[[[[[[[[[[[[[[[[[[[[[[[[[[[[[[[[[[[[[[[[[[[[[[[[[[[[[[[[[[[[[[[[[[[[[[[[[[[[[[[[[[[[[[[[[[[[[[[[[[[[[[[[[[[[[[[[[[[[[[[[[[[[[[[[[[[[[[[[[[[[[[[[[[[[[[[[[[[[[[[[[[[[[[[[[[[[[[[[[[[[[[[[[[[[[[[[[[[[[[[[[[[[[[[[[[[[[[[[[[[[[[[[[[[[[[[[[[[[[[[[[[[[[[[[[[[[[[[[[[[[[[[[[[[[[[[[[[[[[[[[[[[[[[[[[[[[[[[[[[[[[[[[[[[[[[[[[[[[[[[[[[[[[[[[[[[[[[[[[[[[[[[[[[[[[[[[[[[[[[[[[[[[[[[[[[[[[[[[[[[[[[[[[[[[[[[[[[[[[[[[[[[[[[[[[[[[[[[[[[[[[[[[[[[[[[[[[[[[[[[[[[[[[[[[[[[[[[[[[[[[[[[[[[[[[[[[[[[[[[[[[[[[[[[[[[[[[[[[[[[[[[[[[[[[[[[[[[[[[[[[[[[[[[[[[[[[[[[[[[[[[[[[[[[[[[[[[[[[[[[[[[[[[[[[[[[[[[[[[[[[[[[[[[[[[[[[[[[[[[[[[[[[[[[[[[[[[[[[[[[[[[[[[[[[[[[[[[[[[[[[[[[[[[[[[[[[[[[[[[[[[[[[[[[[[[[[[[[[[[[[[[[[[[[[[[[[[[[[[[[[[[[[[[[[[[[[[[[[[[[[[[[[[[[[[[[[[[[[[[[[[[[[[[[[[[[[[[[[[[[[[[[[[[[[[[[[[[[[[[[[[[[[[[[[[[[[[[[[[[[\n"

Lines == {LineA, LineB, LineBad, LineDeep}

\* str.strip(): the line without its leading and trailing whitespace.
Strip(line) ==
    CASE line = LineA -> "{\"id\": 1}"
      [] line = LineB -> "{\"id\": 2}"
      [] line = LineBad -> "{bad json"
      [] line = LineDeep -> DeepText

\* json.loads returns a value for this text.
IsJson(text) == text \in {"{\"id\": 1}", "{\"id\": 2}"}

\* json.loads raises json.JSONDecodeError for this text.
RaisesDecodeError(text) == text \in {"{bad json"}

\* json.loads raises an error that is no JSONDecodeError for this text
\* (RecursionError; ValueError for an integer of too many digits).
RaisesOtherError(text) == text \in {DeepText}

\* json.loads(text) for a text it accepts.
JsonLoads(text) ==
    CASE text = "{\"id\": 1}" -> [id |-> 1]
      [] text = "{\"id\": 2}" -> [id |-> 2]

\* json.dumps of one record as an element of an array dumped with indent=2,
\* character by character.
DumpValue(obj) ==
    <<"{", "\n", " ", " ", " ", " ", "\"", "i", "d", "\"", ":", " ">>
        \o (CASE obj.id = 1 -> <<"1">> [] obj.id = 2 -> <<"2">>)
        \o <<"\n", " ", " ", "}">>

\* The characters written for the elements lo..hi of the array: each element
\* after the first follows a comma, and each stands on a line of its own,
\* indented by two.
RECURSIVE DumpItems(_, _, _)
DumpItems(objs, lo, hi) ==
    IF lo > hi THEN <<>>
    ELSE IF lo = hi
         THEN (IF lo = 1 THEN <<>> ELSE <<",">>) \o <<"\n", " ", " ">> \o DumpValue(objs[lo])
         ELSE LET mid == (lo + hi) \div 2
              IN  DumpItems(objs, lo, mid) \o DumpItems(objs, mid + 1, hi)

\* json.dump(objects, outfile, indent=2, ensure_ascii=False): the characters
\* written to the file, in order.
JsonDump(objs) ==
    IF Len(objs) = 0 THEN <<"[", "]">>
    ELSE <<"[">> \o DumpItems(objs, 1, Len(objs)) \o <<"\n", "]">>

\* ---------------------------------------------------------------- inputs
RECURSIVE SeqsUpTo(_, _)
SeqsUpTo(S, k) ==
    IF k = 0 THEN {<<>>}
    ELSE LET shorter == SeqsUpTo(S, k - 1)
         IN  shorter \cup {Append(s, x) : s \in {t \in shorter : Len(t) = k - 1}, x \in S}

\* Input files: every file of at most MaxShort lines; and long files, which
\* are a run of malformed lines (the Sample stays small while the line numbers
\* grow) and a few trailing lines, the run so long that the line numbered
\* ProgressEvery, or the line numbered twice that, is the first trailing line.
Filler(c) == [k \in 1..c |-> LineBad]

InputFiles ==
    SeqsUpTo(Lines, MaxShort)
    \cup {Filler(ProgressEvery - 1) \o t : t \in SeqsUpTo(Lines, MaxTail)}
    \cup {Filler(2 * ProgressEvery - 1) \o t : t \in SeqsUpTo(Lines, MaxTail)}

\* Values of n: negative, zero, around the short files' lengths, the first
\* multiple of ProgressEvery and the second.
NChoices ==
    ((0 - 1) .. (MaxShort + 1)) \cup {ProgressEvery, 2 * ProgressEvery}

NoFile == [exists |-> FALSE, content |-> <<>>]
PriorOutputs == {NoFile, [exists |-> TRUE, content |-> <<"s", "t", "a", "l", "e">>]}

\* ---------------------------------------------------------------- state
VARIABLES
    infile,     \* the lines of the input file
    n,          \* the argument n
    prior,      \* the output file as it was before the run
    outfile,    \* the output file on disk
    pc,         \* position of the run
    i,          \* the index enumerate() gives the next line
    objects,    \* the list objects
    status,     \* what was printed, in order
    examined,   \* number of json.loads calls made
    inOpen,     \* the input handle is open
    outOpen,    \* the output handle is open
    ret,        \* whether the function returned, and what: <<>> is None
    again       \* this is the second run with the same arguments

vars ==
    <<infile, n, prior, outfile, pc, i, objects, status, examined, inOpen, outOpen, ret, again>>

NotReturned == [returned |-> FALSE, value |-> <<>>]

Msg(kind, num) == [kind |-> kind, num |-> num]

Init ==
    /\ infile \in InputFiles
    /\ n \in NChoices
    /\ prior \in PriorOutputs
    /\ outfile = prior
    /\ pc = "start"
    /\ i = 0
    /\ objects = <<>>
    /\ status = <<>>
    /\ examined = 0
    /\ inOpen = FALSE
    /\ outOpen = FALSE
    /\ ret = NotReturned
    /\ again = FALSE

\* objects = [] and the first print.
Start ==
    /\ pc = "start"
    /\ objects' = <<>>
    /\ status' = Append(status, Msg("extracting", n))
    /\ pc' = "open_in"
    /\ UNCHANGED <<infile, n, prior, outfile, i, examined, inOpen, outOpen, ret, again>>

\* open(input_file, 'r') succeeds.
OpenInput ==
    /\ pc = "open_in"
    /\ inOpen' = TRUE
    /\ pc' = "scan"
    /\ UNCHANGED <<infile, n, prior, outfile, i, objects, status, examined, outOpen, ret, again>>

\* As if the output file were opened before the input file: the failure to
\* open the input leaves a truncated output file behind.
OpenInputFailAfterOutput ==
    /\ pc = "open_in"
    /\ pc' = "input_error"
    /\ outfile' = [exists |-> TRUE, content |-> <<>>]
    /\ UNCHANGED <<infile, n, prior, i, objects, status, examined, inOpen, outOpen, ret, again>>

\* open(input_file, 'r') raises: the error leaves the function.
OpenInputFail ==
    /\ pc = "open_in"
    /\ pc' = "input_error"
    /\ UNCHANGED <<infile, n, prior, outfile, i, objects, status, examined, inOpen, outOpen, ret, again>>

\* As if the test were i > n.
AtCutoffOffByOne == i > n

\* As if n <= 0 meant no limit.
AtCutoffPositiveOnly == n > 0 /\ i >= n

\* if i >= n
AtCutoff == i >= n

\* (i + 1) % 100 == 0
ProgressDue(idx) == (idx + 1) % ProgressEvery = 0

\* The line number a warning states.
WarningLine(idx) == idx + 1

\* The iterator is exhausted: the loop ends and the with block closes infile.
ScanEOF ==
    /\ pc = "scan"
    /\ i >= Len(infile)
    /\ inOpen' = FALSE
    /\ pc' = "report"
    /\ UNCHANGED <<infile, n, prior, outfile, i, objects, status, examined, outOpen, ret, again>>

\* As if break left the loop without closing infile.
ScanBreakLeak ==
    /\ pc = "scan"
    /\ i < Len(infile)
    /\ AtCutoff
    /\ pc' = "report"
    /\ UNCHANGED <<infile, n, prior, outfile, i, objects, status, examined, inOpen, outOpen, ret, again>>

\* A line was read and i >= n: break, and the with block closes infile.
ScanBreak ==
    /\ pc = "scan"
    /\ i < Len(infile)
    /\ AtCutoff
    /\ inOpen' = FALSE
    /\ pc' = "report"
    /\ UNCHANGED <<infile, n, prior, outfile, i, objects, status, examined, outOpen, ret, again>>

\* A line was read, i < n and json.loads returns: append, then the progress
\* indicator.
ScanParsed ==
    /\ pc = "scan"
    /\ i < Len(infile)
    /\ ~AtCutoff
    /\ IsJson(Strip(infile[i + 1]))
    /\ examined' = examined + 1
    /\ objects' = Append(objects, JsonLoads(Strip(infile[i + 1])))
    /\ status' = IF ProgressDue(i) THEN Append(status, Msg("progress", i + 1)) ELSE status
    /\ i' = i + 1
    /\ UNCHANGED <<infile, n, prior, outfile, pc, inOpen, outOpen, ret, again>>

\* A line was read, i < n and json.loads raises JSONDecodeError: warn and
\* continue, which skips the progress indicator.
ScanMalformed ==
    /\ pc = "scan"
    /\ i < Len(infile)
    /\ ~AtCutoff
    /\ RaisesDecodeError(Strip(infile[i + 1]))
    /\ examined' = examined + 1
    /\ status' = Append(status, Msg("warning", WarningLine(i)))
    /\ i' = i + 1
    /\ UNCHANGED <<infile, n, prior, outfile, pc, objects, inOpen, outOpen, ret, again>>

\* A line was read, i < n and json.loads raises an error the except clause
\* does not name: the with block closes infile and the error leaves the
\* function.
ScanParseError ==
    /\ pc = "scan"
    /\ i < Len(infile)
    /\ ~AtCutoff
    /\ RaisesOtherError(Strip(infile[i + 1]))
    /\ examined' = examined + 1
    /\ inOpen' = FALSE
    /\ pc' = "parse_error"
    /\ UNCHANGED <<infile, n, prior, outfile, i, objects, status, outOpen, ret, again>>

\* Reading the next line raises (an I/O or decoding error): the with block
\* closes infile and the error leaves the function.
ScanReadError ==
    /\ pc = "scan"
    /\ i < Len(infile)
    /\ inOpen' = FALSE
    /\ pc' = "read_error"
    /\ UNCHANGED <<infile, n, prior, outfile, i, objects, status, examined, outOpen, ret, again>>

\* As if the messages stated the number of lines read.
WriteCountLines == i

\* len(objects) as the messages state it.
WriteCount == Len(objects)

\* print(f"Writing {len(objects)} objects to {output_file}...")
PrintWriting ==
    /\ pc = "report"
    /\ status' = Append(status, Msg("writing", WriteCount))
    /\ pc' = "open_out"
    /\ UNCHANGED <<infile, n, prior, outfile, i, objects, examined, inOpen, outOpen, ret, again>>

\* As if the file were opened with mode 'a': what it held is kept.
OpenOutputAppend ==
    /\ pc = "open_out"
    /\ outfile' = [exists |-> TRUE, content |-> outfile.content]
    /\ outOpen' = TRUE
    /\ pc' = "dump"
    /\ UNCHANGED <<infile, n, prior, i, objects, status, examined, inOpen, ret, again>>

\* open(output_file, 'w') succeeds: the file is created or truncated.
OpenOutput ==
    /\ pc = "open_out"
    /\ outfile' = [exists |-> TRUE, content |-> <<>>]
    /\ outOpen' = TRUE
    /\ pc' = "dump"
    /\ UNCHANGED <<infile, n, prior, i, objects, status, examined, inOpen, ret, again>>

\* open(output_file, 'w') raises: the error leaves the function.
OpenOutputFail ==
    /\ pc = "open_out"
    /\ pc' = "output_error"
    /\ UNCHANGED <<infile, n, prior, outfile, i, objects, status, examined, inOpen, outOpen, ret, again>>

\* json.dump writes the whole array and the with block closes outfile.
Dump ==
    /\ pc = "dump"
    /\ outfile' = [outfile EXCEPT !.content = @ \o JsonDump(objects)]
    /\ outOpen' = FALSE
    /\ pc' = "finish"
    /\ UNCHANGED <<infile, n, prior, i, objects, status, examined, inOpen, ret, again>>

\* A write raises part-way: the first k characters of the array, for any k
\* short of them all, reached the file; the with block closes outfile and the
\* error leaves the function.
DumpFail ==
    /\ pc = "dump"
    /\ \E k \in 0..(Len(JsonDump(objects)) - 1) :
          outfile' = [outfile EXCEPT !.content = @ \o SubSeq(JsonDump(objects), 1, k)]
    /\ outOpen' = FALSE
    /\ pc' = "write_error"
    /\ UNCHANGED <<infile, n, prior, i, objects, status, examined, inOpen, ret, again>>

\* As if the function ended with return len(objects).
ReturnValueCount == <<Len(objects)>>

\* The function has no return statement: it returns None.
ReturnValue == <<>>

\* print(f"Done! Extracted {len(objects)} objects to {output_file}") and the
\* implicit return.
PrintDone ==
    /\ pc = "finish"
    /\ status' = Append(status, Msg("done", WriteCount))
    /\ ret' = [returned |-> TRUE, value |-> ReturnValue]
    /\ pc' = "done"
    /\ UNCHANGED <<infile, n, prior, outfile, i, objects, examined, inOpen, outOpen, again>>

\* The script is run a second time with the same arguments and the same
\* input file; the output file is what the first run left.
Rerun ==
    /\ pc = "done"
    /\ ~again
    /\ again' = TRUE
    /\ prior' = outfile
    /\ pc' = "start"
    /\ i' = 0
    /\ objects' = <<>>
    /\ status' = <<>>
    /\ examined' = 0
    /\ ret' = NotReturned
    /\ UNCHANGED <<infile, n, outfile, inOpen, outOpen>>

Next ==
    \/ Start
    \/ OpenInput
    \/ OpenInputFail
    \/ ScanEOF
    \/ ScanBreak
    \/ ScanParsed
    \/ ScanMalformed
    \/ ScanParseError
    \/ ScanReadError
    \/ PrintWriting
    \/ OpenOutput
    \/ OpenOutputFail
    \/ Dump
    \/ DumpFail
    \/ PrintDone
    \/ Rerun

Spec == Init /\ [][Next]_vars

TypeOK ==
    /\ pc \in {"start", "open_in", "scan", "report", "open_out", "dump", "finish", "done",
               "input_error", "read_error", "parse_error", "output_error", "write_error"}
    /\ i \in 0..Len(infile)
    /\ examined \in 0..Len(infile)
    /\ Len(objects) <= examined

\* ------------------------------------------------------- what is checked
\* The records of the lines lo..hi of f that parse, in file order.
RECURSIVE ParsedBetween(_, _, _)
ParsedBetween(f, lo, hi) ==
    IF lo > hi THEN <<>>
    ELSE IF lo = hi
         THEN IF IsJson(Strip(f[lo])) THEN <<JsonLoads(Strip(f[lo]))>> ELSE <<>>
         ELSE LET mid == (lo + hi) \div 2
              IN  ParsedBetween(f, lo, mid) \o ParsedBetween(f, mid + 1, hi)

\* The records of the lines among the first k of f that parse, in file order.
ParsedAmong(f, k) == ParsedBetween(f, 1, k)

\* The 1-based numbers of the lines among the first k of f that are not
\* well-formed JSON.
MalformedAmong(f, k) == {j \in 1..k : ~IsJson(Strip(f[j]))}

Min(a, b) == IF a < b THEN a ELSE b

\* How many of the first n lines there are.
FirstN == IF n <= 0 THEN 0 ELSE Min(n, Len(infile))

\* Reading the output file back as JSON: the elements of the array.
LoadValue(chars) ==
    CASE chars = DumpValue([id |-> 1]) -> [id |-> 1]
      [] chars = DumpValue([id |-> 2]) -> [id |-> 2]
LoadArray(chars) ==
    LET IsStart(j) == chars[j] = "{"
        starts == SelectSeq([j \in 1..Len(chars) |-> j], IsStart)
        width == Len(DumpValue([id |-> 1]))
    IN  [k \in 1..Len(starts) |-> LoadValue(SubSeq(chars, starts[k], starts[k] + width - 1))]

IsKind(kind, m) == m.kind = kind
IsWarning(m) == IsKind("warning", m)
IsProgress(m) == IsKind("progress", m)
HasKind(kind) == \E j \in 1..Len(status) : status[j].kind = kind
NumsOf(msgs) == [k \in 1..Len(msgs) |-> msgs[k].num]
WarningNums == NumsOf(SelectSeq(status, IsWarning))
ProgressNums == NumsOf(SelectSeq(status, IsProgress))
Times(seq, x) == Cardinality({k \in 1..Len(seq) : seq[k] = x})

ScanEnded == pc \in {"report", "open_out", "dump", "finish", "done", "output_error", "write_error"}
\* The scan is over other than by a failure to read the file.
ScanOver == ScanEnded \/ pc = "parse_error"
Failed == pc \in {"input_error", "read_error", "parse_error", "output_error", "write_error"}
Terminal == Failed \/ (pc = "done" /\ again)

\* C1: when the run completes, the array in the output file is exactly the
\* records of the lines among the first n that parse, in file order; its length
\* is the number of such lines.
C1_OutputIsParsedFirstN ==
    pc = "done" =>
        /\ outfile.exists
        /\ LoadArray(outfile.content) = ParsedAmong(infile, FirstN)
        /\ Len(LoadArray(outfile.content))
               = Cardinality({k \in 1..Len(infile) : k <= n /\ IsJson(Strip(infile[k]))})

\* A completed run over a file with a malformed line among the first n, a
\* parsed line among them, and a parseable line past the cutoff.
C1_Witness ==
    /\ pc = "done"
    /\ n >= 2
    /\ n < Len(infile)
    /\ Len(objects) >= 1
    /\ Len(objects) < n
    /\ IsJson(Strip(infile[n + 1]))

\* C2: every examined line whose 1-based number is a multiple of 100 has
\* exactly one progress message stating that number, whether or not the line
\* parsed, and no other line has a progress message.
C2_ProgressEveryHundredLines ==
    \A k \in 1..Len(infile) :
        Times(ProgressNums, k) = IF k <= examined /\ k % ProgressEvery = 0 THEN 1 ELSE 0

\* C3 as claimed: on normal completion the function returns the count of
\* records written.
C3_ReturnsWrittenCount ==
    pc = "done" => ret.value = <<Len(objects)>>

\* C3 as amended: on normal completion the function has returned None; the
\* count of records written, which is the length of the array in the output
\* file, is stated by the Writing message and the completion message.
C3_ReturnsNoneCountPrinted ==
    pc = "done" =>
        /\ ret.returned
        /\ ret.value = <<>>
        /\ status[Len(status)] = Msg("done", Len(LoadArray(outfile.content)))
        /\ status[Len(status) - 1] = Msg("writing", Len(LoadArray(outfile.content)))

C3_Witness ==
    /\ pc = "done"
    /\ ret.returned
    /\ Len(objects) >= 2
    /\ Len(WarningNums) >= 1

\* C4: with n <= 0 no line is parsed, no warning or progress message is
\* emitted, and the output file is written as the empty array [].
C4_NonPositiveN ==
    n <= 0 =>
        /\ examined = 0
        /\ WarningNums = <<>>
        /\ ProgressNums = <<>>
        /\ pc \in {"finish", "done"} => outfile = [exists |-> TRUE, content |-> <<"[", "]">>]

C4_Witness ==
    /\ n <= 0
    /\ pc = "done"
    /\ Len(infile) >= 2
    /\ prior.exists

\* C5: every malformed line among the first n has exactly one warning, which
\* states its 1-based number; the warnings are in file order; a malformed line
\* appends nothing; and the scan goes on to the end of the first n lines
\* instead of aborting the run.
C5_MalformedLinesWarnedAndSkipped ==
    /\ {WarningNums[j] : j \in 1..Len(WarningNums)} = MalformedAmong(infile, examined)
    /\ \A j \in 1..(Len(WarningNums) - 1) : WarningNums[j] < WarningNums[j + 1]
    /\ Len(objects) + Len(WarningNums) = examined
    /\ pc = "scan" => examined = i
    /\ ScanOver => (pc # "parse_error" /\ examined = FirstN)

\* C6: when the input file cannot be opened the run has failed and nothing
\* follows: the output file is as it was before the run, no Writing and no
\* completion message was emitted, and the function did not return.
C6_InputOpenFailure ==
    pc = "input_error" =>
        /\ outfile = prior
        /\ ~HasKind("writing")
        /\ ~HasKind("done")
        /\ ~ret.returned
        /\ ~outOpen
        /\ ~ENABLED Next

C6_Witness ==
    /\ pc = "input_error"
    /\ prior.exists
    /\ n >= 1
    /\ Len(infile) >= 1

\* Decreases with every step of a run.
PcRank ==
    CASE pc = "start" -> 7
      [] pc = "open_in" -> 6
      [] pc = "scan" -> 5
      [] pc = "report" -> 4
      [] pc = "open_out" -> 3
      [] pc = "dump" -> 2
      [] pc = "finish" -> 1
      [] OTHER -> 0
Measure ==
    PcRank + (Len(infile) - i) + (IF again THEN 0 ELSE Len(infile) + 9)

\* C7: every run terminates (each step decreases a natural number and only a
\* finished run has no step); for n >= 0 the lines examined when the scan is
\* over are exactly min(n, total); and with n >= total the scan ends at end of
\* file and the completed run wrote every parsed line of the file.
C7_CutoffCountsLinesRead ==
    /\ [][Measure' < Measure]_vars
    /\ [](Measure >= 0)
    /\ [](Terminal \/ ENABLED Next)
    /\ []((ScanOver /\ n >= 0) => examined = Min(n, Len(infile)))
    /\ []((ScanOver /\ n >= Len(infile)) => (ScanEnded /\ i = Len(infile)))
    /\ []((pc = "done" /\ n >= Len(infile))
            => LoadArray(outfile.content) = ParsedAmong(infile, Len(infile)))

\* C8: after a completed run the output file holds the dump of the parsed
\* first-n lines whatever it held before, and a second run with the same
\* arguments leaves it byte for byte as the first run did.
C8_FullOverwriteIdempotent ==
    pc \in {"finish", "done"} =>
        /\ outfile = [exists |-> TRUE, content |-> JsonDump(ParsedAmong(infile, FirstN))]
        /\ again => outfile = prior

C8_Witness ==
    /\ pc = "done"
    /\ again
    /\ Len(objects) >= 2
    /\ prior.content # <<>>

\* C9: a handle is open only during the step that uses it, the two are never
\* open together, and none is open once the run has ended, normally or not.
C9_HandlesScoped ==
    /\ ~(inOpen /\ outOpen)
    /\ inOpen <=> pc = "scan"
    /\ outOpen <=> pc = "dump"
    /\ (Failed \/ pc = "done") => (~inOpen /\ ~outOpen)

C9_Witness ==
    /\ pc \in {"read_error", "write_error"}
    /\ examined >= 1
    /\ i < Len(infile)

MsgRank(m) ==
    CASE m.kind = "extracting" -> 0
      [] m.kind = "warning" -> 1
      [] m.kind = "progress" -> 1
      [] m.kind = "writing" -> 2
      [] m.kind = "done" -> 3

\* C10: warnings and progress messages come before the Writing message, which
\* is emitted once the scan has ended and before the output file is opened;
\* the completion message comes last and only once the file is written; both
\* state the size of the Sample; a failed open or write of the output leaves
\* the Writing message without a completion message.
C10_StatusOrder ==
    /\ \A j \in 1..(Len(status) - 1) :
          /\ MsgRank(status[j]) <= MsgRank(status[j + 1])
          /\ MsgRank(status[j + 1]) >= 2 => MsgRank(status[j]) < MsgRank(status[j + 1])
    /\ HasKind("writing") <=> (ScanEnded /\ pc # "report")
    /\ outOpen => HasKind("writing")
    /\ HasKind("done") <=> pc = "done"
    /\ pc = "done" => outfile.content = JsonDump(objects)
    /\ \A j \in 1..Len(status) : MsgRank(status[j]) >= 2 => status[j].num = Len(objects)
    /\ pc \in {"output_error", "write_error"} => (HasKind("writing") /\ ~HasKind("done"))

C10_Witness ==
    /\ pc \in {"done", "write_error"}
    /\ Len(WarningNums) >= 1
    /\ Len(ProgressNums) >= 1
    /\ Len(objects) < examined
====
